---- MODULE Spec2Model ----
(***************************************************************************)
(* Model of grey_hat_ai/voice_engine.py: the VoiceEngine capture pipeline. *)
(*                                                                         *)
(* One VoiceEngine instance.  The foreground (control) context calls       *)
(* start_listening / stop_listening; every successful start creates a      *)
(* capture thread running _recording_loop; the sounddevice callback of an  *)
(* open InputStream puts frames into the shared audio_queue.               *)
(*                                                                         *)
(* A frame is identified by its arrival number (1, 2, ...); produced[i] is *)
(* the verdict the engine's classifier gives on the content of frame i.    *)
(* Durations are in milliseconds.                                          *)
(*                                                                         *)
(* text_to_speech and its cache are modelled statement by statement, for   *)
(* any number of calling contexts; app.py's voice_queue, its consumer and  *)
(* the script run that owns them are modelled from GreyHatAI.              *)
(***************************************************************************)
EXTENDS Integers, Sequences, FiniteSets

VARIABLES
    whisper_model,       \* self.whisper_model is not None
    sd_available,        \* the sounddevice and numpy imports succeeded
    vad,                 \* self.vad is not None
    silence_threshold,   \* config.silence_threshold, in ms
    sample_rate,         \* config.sample_rate, in Hz
    is_listening,        \* self.is_listening
    audio_queue,         \* self.audio_queue: frame ids, oldest first
    recording_thread,    \* self.recording_thread: thread id, 0 = None
    on_speech_detected,  \* self.on_speech_detected: the registered callback
    threads,             \* every capture thread: position and locals of _recording_loop
    fg,                  \* position of the foreground context: "idle" or "joining"
    produced,            \* the frames the device delivered, by arrival number: their verdict
    lastClassified,      \* history: the newest frame _is_speech has been called on
    emitted,             \* history: utterances passed to _process_audio_buffer, in order
    sttCalls,            \* history: utterances passed to whisper_model.transcribe, in order
    detected,            \* history: utterances whose text went to on_speech_detected
    signals,             \* history: on_listening_start / on_listening_stop invocations
    lastCall,            \* history: the last start_listening / stop_listening call
    elevenlabs_configured,  \* self.elevenlabs_configured
    tts_cache,           \* self.tts_cache: entries in insertion order (a dict keeps it)
    callers,             \* every context calling text_to_speech: position and locals
    synth_count,         \* history: calls made to the external generate()
    cache_before,        \* history: the cache when the latest call of a sequence began
    voice_queue,         \* GreyHatAI.voice_queue of the object that made the engine
    script,              \* the script run of that object: "sidebar", "main" or "ended"
    delivered            \* history: utterances whose text went to _process_user_input

vars == <<whisper_model, sd_available, vad, silence_threshold, sample_rate, is_listening,
          audio_queue, recording_thread, on_speech_detected, threads, fg,
          produced, lastClassified, emitted, sttCalls, detected, signals, lastCall,
          elevenlabs_configured, tts_cache, callers, synth_count, cache_before,
          voice_queue, script, delivered>>

\* the synthesis side of the engine
synthesis == <<elevenlabs_configured, tts_cache, callers, synth_count, cache_before>>

config == <<whisper_model, sd_available, vad, silence_threshold, sample_rate>>

(***************************************************************************)
(* Bounds of the model and constants of the program.                       *)
(***************************************************************************)
MaxThreads == 2          \* capture sessions started on the engine
MaxFrames == 2           \* frames the device delivers in the engine specification
MaxSilenceChunks == 1    \* silence_threshold is 0 .. MaxSilenceChunks chunk durations there
MaxStream == 13          \* frames fed in the accumulator specification
MaxSilenceUnits == 8     \* silence_threshold is 0 .. MaxSilenceUnits quarter seconds there

chunk_duration == 500          \* VoiceConfig.chunk_duration = 0.5 s
default_silence_threshold == 2000  \* VoiceConfig.silence_threshold = 2.0 s
default_sample_rate == 16000       \* VoiceConfig.sample_rate
SilenceStep == chunk_duration \div 2   \* granularity of the thresholds tried, ms

ThreadIds == 1 .. MaxThreads

(***************************************************************************)
(* Pure helpers of _recording_loop.                                        *)
(***************************************************************************)

\* int(silence_threshold / chunk_duration): truncating division
max_silence_chunks_of(st, cd) == st \div cd

max_silence_chunks == max_silence_chunks_of(silence_threshold, chunk_duration)

\* a classifier that fails closed: without a VAD no frame is speech
IsSpeech_FailClosed(vadAvailable, verdict) == IF ~vadAvailable THEN FALSE ELSE verdict

\* _is_speech: without a VAD every frame is speech; else the VAD's verdict
IsSpeech(vadAvailable, verdict) == IF ~vadAvailable THEN TRUE ELSE verdict

\* line 275: the sample rates vad.is_speech takes
VadRates == {8000, 16000, 48000}

\* line 284: vad.is_speech(frame, sample_rate) raises on any other rate
VadRaises == vad /\ sample_rate \notin VadRates

\* lines 269-288, _is_speech on one frame: an exception of the VAD is logged
\* and the frame is taken for speech
Classify(verdict) == IF VadRaises THEN TRUE ELSE IsSpeech(vad, verdict)

\* the verdicts frames can get: without a VAD that works the content of a frame
\* is never examined
Verdicts == IF vad /\ ~VadRaises THEN BOOLEAN ELSE {TRUE}

\* a variant of AccumulateBuffer that opens an utterance on a non-speech frame
AccumulateBuffer_KeepIdleSilence(buf, chunk, speech) == Append(buf, chunk)

\* a variant of AccumulateBuffer that keeps the speech frames only
AccumulateBuffer_SpeechOnly(buf, chunk, speech) ==
    IF speech THEN Append(buf, chunk) ELSE buf

\* lines 246-252: the new audio_buffer
AccumulateBuffer(buf, chunk, speech) ==
    IF speech THEN Append(buf, chunk)
    ELSE IF buf # <<>> THEN Append(buf, chunk) ELSE buf

\* a variant of AccumulateSilence in which speech does not reset the counter
AccumulateSilence_NoReset(sil, speech) == IF speech THEN sil ELSE sil + 1

\* lines 246-250: the new silence_chunks
AccumulateSilence(sil, speech) == IF speech THEN 0 ELSE sil + 1

\* a variant of SegmentComplete that waits for one non-speech frame too many
SegmentComplete_OffByOne(buf, sil, maxSil) == buf # <<>> /\ sil > maxSil

\* a variant of SegmentComplete that closes the segment one non-speech frame early
SegmentComplete_Early(buf, sil, maxSil) == buf # <<>> /\ sil + 1 >= maxSil

\* line 255: enough silence after some speech
SegmentComplete(buf, sil, maxSil) == buf # <<>> /\ sil >= maxSil

\* a variant of TranscribeCalls that drops buffers of a single frame
TranscribeCalls_SkipShort(buf, model) ==
    IF Len(buf) < 2 THEN <<>>
    ELSE IF ~model THEN <<>>
    ELSE <<buf>>

\* _process_audio_buffer and _transcribe_audio: the calls made to the engine
TranscribeCalls(buf, model) ==
    IF buf = <<>> THEN <<>>
    ELSE IF ~model THEN <<>>
    ELSE <<buf>>

\* a variant of AlreadyListening that never finds the engine listening
AlreadyListening_Never == FALSE

\* a re-entrancy guard that also looks at whether the capture thread is alive
AlreadyListening_WhileThreadAlive ==
    /\ is_listening
    /\ recording_thread # 0
    /\ threads[recording_thread].pc # "done"

\* line 175: the re-entrancy guard of start_listening
AlreadyListening == is_listening

\* a guard that forgets the audio library
Unavailable_ModelOnly == ~whisper_model

\* lines 179-185: the model was not loaded, or sounddevice / numpy is missing
Unavailable == ~whisper_model \/ ~sd_available

\* line 201: the guard of stop_listening
NotListening == ~is_listening

\* after_stop and timed_out are history: the frames the loop has read since
\* stop_listening cleared the flag of its session, and whether its latest
\* audio_queue.get ended in queue.Empty
NewThread == [pc |-> "unstarted", audio_buffer |-> <<>>, silence_chunks |-> 0,
              chunk |-> 0, stream |-> "none", exit |-> "none", after_stop |-> 0,
              timed_out |-> FALSE]

FreeThreads == {t \in ThreadIds : threads[t].pc = "unstarted"}

\* the thread object the next threading.Thread(...) call creates
NextThread == CHOOSE t \in FreeThreads : \A u \in FreeThreads : t <= u

\* a variant of AfterProcess that keeps the silence-run counter
AfterProcess_KeepSilence(th) ==
    [th EXCEPT !.pc = "loop", !.audio_buffer = <<>>]

\* lines 257-258: back in the loop after _process_audio_buffer
AfterProcess(th) ==
    [th EXCEPT !.pc = "loop", !.audio_buffer = <<>>, !.silence_chunks = 0]

\* a loop that returns without leaving the "with sd.InputStream" block
Ended_LeakStream(th, streamState, why) ==
    [NewThread EXCEPT !.pc = "done", !.stream = th.stream, !.exit = why]

\* a thread that has returned: its locals are gone
Ended(th, streamState, why) ==
    [NewThread EXCEPT !.pc = "done", !.stream = streamState, !.exit = why]

(***************************************************************************)
(* text_to_speech: the cache and the locals of a call.                     *)
(*                                                                         *)
(* A text is a number; the audio generate() returns is identified by the   *)
(* text, the voice and the serial number of the call that made it.  The    *)
(* cache is the sequence of its entries in insertion order.                *)
(***************************************************************************)
max_entries == 50    \* line 402: len(self.tts_cache) > 50
evict_batch == 10    \* line 404: list(self.tts_cache.keys())[:10]

MaxCallers == 2      \* contexts calling text_to_speech
MaxSynthCalls == 3   \* calls made to generate() by a sequence of calls
MaxConcurrentSynth == 2  \* calls made to generate() by concurrent calls
MaxBelow == 1        \* the cache starts empty or 0 .. MaxBelow entries below max_entries
MaxFreshTexts == 2   \* texts requested that no cache entry was made from
HashRange == 64      \* hash(text) takes HashRange values

CallerIds == 1 .. MaxCallers

elevenlabs_voice_id == "default"     \* config.elevenlabs_voice_id
VoiceArgs == {"None", "other"}       \* the voice_id argument: omitted, or a voice

OldestText == 1
FreshTexts == {max_entries + k : k \in 1 .. MaxFreshTexts}
\* a text whose hash is that of OldestText
CollidingText == OldestText + HashRange
TtsTexts == {OldestText, CollidingText} \cup FreshTexts

\* hash(text): many texts share a value
Hash(text) == text % HashRange

\* line 378: voice_id or self.config.elevenlabs_voice_id
ResolveVoice(arg) == IF arg \in {"None", ""} THEN elevenlabs_voice_id ELSE arg

\* line 381: f"{voice_id}:{hash(text)}"
CacheKey(voice, text) == <<voice, Hash(text)>>

\* Python's None as a return value, and the audio of one generate() call
None == [text |-> 0, voice |-> "None", n |-> 0]
Audio(text, voice, n) == [text |-> text, voice |-> voice, n |-> n]

\* line 382: cache_key in self.tts_cache
CacheHas(cache, key) == \E i \in 1 .. Len(cache) : cache[i].key = key

\* line 383: self.tts_cache[cache_key]
CacheGet(cache, key) == cache[CHOOSE i \in 1 .. Len(cache) : cache[i].key = key].audio

\* a store that adds an entry even when the key has one
CachePut_AlwaysAppend(cache, key, audio) ==
    Append(cache, [key |-> key, audio |-> audio])

\* a store that keeps nothing
CachePut_Drop(cache, key, audio) == cache

\* line 399: self.tts_cache[cache_key] = audio; a key already there keeps its place
CachePut(cache, key, audio) ==
    IF CacheHas(cache, key)
    THEN [i \in 1 .. Len(cache) |->
            IF cache[i].key = key THEN [key |-> key, audio |-> audio] ELSE cache[i]]
    ELSE Append(cache, [key |-> key, audio |-> audio])

\* a failure that leaves its error value in the cache
CacheAfterSynthesis_CachesFailure(cache, key, ok, audio) ==
    CachePut(cache, key, IF ok THEN audio ELSE None)

\* lines 386-399 and 410-412: generate() returned and the result is stored, or
\* it raised and the except branch is taken before the store
CacheAfterSynthesis(cache, key, ok, audio) ==
    IF ok THEN CachePut(cache, key, audio) ELSE cache

\* a size test that lets one entry too many stay
NeedsEviction_Late(cache) == Len(cache) > max_entries + 1

\* line 402: len(self.tts_cache) > 50
NeedsEviction(cache) == Len(cache) > max_entries

\* the newest keys instead of the oldest
OldestKeys_Newest(cache) ==
    [i \in 1 .. evict_batch |-> cache[Len(cache) - evict_batch + i].key]

\* line 404: list(self.tts_cache.keys())[:10]
OldestKeys(cache) ==
    [i \in 1 .. (IF Len(cache) < evict_batch THEN Len(cache) ELSE evict_batch) |->
        cache[i].key]

\* line 406: del self.tts_cache[key]
CacheDel(cache, key) == SelectSeq(cache, LAMBDA e : e.key # key)

\* a context that has made no call yet
IdleCaller ==
    [pc |-> "idle", text |-> 0, arg |-> "None", voice |-> "None", key |-> <<"None", 0>>,
     audio |-> None, oldest |-> <<>>, ret |-> None, outcome |-> "none",
     prev |-> "none"]

\* the cache after n texts 1 .. n were synthesized in the default voice
Prefilled(n) ==
    [k \in 1 .. n |-> [key |-> CacheKey(elevenlabs_voice_id, k),
                       audio |-> Audio(k, elevenlabs_voice_id, 0)]]

\* lines 86 and 99: the engine after __init__; nothing calls text_to_speech
InitSynthesis ==
    /\ elevenlabs_configured = FALSE
    /\ tts_cache = <<>>
    /\ callers = <<>>
    /\ synth_count = 0
    /\ cache_before = <<>>

(***************************************************************************)
(* The state after VoiceEngine.__init__ and the application's registration *)
(* of its callbacks.                                                       *)
(***************************************************************************)
InitEngine ==
    /\ is_listening = FALSE
    /\ audio_queue = <<>>
    /\ recording_thread = 0
    /\ on_speech_detected = "app"
    /\ threads = [t \in ThreadIds |-> NewThread]
    /\ fg = "idle"
    /\ produced = <<>>
    /\ lastClassified = 0
    /\ emitted = <<>>
    /\ sttCalls = <<>>
    /\ detected = <<>>
    /\ signals = <<>>
    /\ lastCall = [op |-> "none", was_listening |-> FALSE]
    /\ voice_queue = <<>>
    /\ script = "sidebar"
    /\ delivered = <<>>

Init ==
    /\ sample_rate = default_sample_rate
    /\ whisper_model \in BOOLEAN
    /\ sd_available \in BOOLEAN
    /\ vad \in BOOLEAN
    /\ silence_threshold \in {chunk_duration * k : k \in 0 .. MaxSilenceChunks}
    /\ InitEngine
    /\ InitSynthesis

(***************************************************************************)
(* Foreground context.                                                     *)
(***************************************************************************)

\* start_listening(callback)
StartListeningCall(callback) ==
    /\ fg = "idle"
    /\ lastCall' = [op |-> "start_listening", was_listening |-> is_listening]
    /\ IF AlreadyListening \/ Unavailable
       THEN UNCHANGED <<is_listening, recording_thread, on_speech_detected,
                        threads, signals>>
       ELSE /\ FreeThreads # {}
            /\ LET t == NextThread IN
              /\ on_speech_detected' =
                     IF callback # "None" THEN callback ELSE on_speech_detected
              /\ is_listening' = TRUE
              /\ recording_thread' = t
              /\ threads' = [threads EXCEPT ![t].pc = "opening"]
              /\ signals' = Append(signals, "ListeningStarted")
    /\ UNCHANGED <<config, synthesis, voice_queue, delivered, audio_queue, fg,
                   produced, lastClassified, emitted, sttCalls, detected>>

\* start_listening(callback) called on the engine as a library
StartListening(callback) == StartListeningCall(callback) /\ UNCHANGED script

\* stop_listening up to the join
StopListening ==
    /\ fg = "idle"
    /\ lastCall' = [op |-> "stop_listening", was_listening |-> is_listening]
    /\ IF NotListening
       THEN UNCHANGED <<is_listening, fg>>
       ELSE /\ is_listening' = FALSE
            /\ fg' = "joining"
    /\ UNCHANGED <<config, synthesis, voice_queue, script, delivered, audio_queue,
                   recording_thread, on_speech_detected, threads, produced,
                   lastClassified, emitted, sttCalls, detected, signals>>

\* recording_thread.join(timeout=2.0) returns: the thread has ended, or it is
\* still inside a transcription (the one unbounded step of the loop)
JoinMayReturn ==
    \/ recording_thread = 0
    \/ threads[recording_thread].pc \in {"done", "transcribing"}

StopListeningJoined ==
    /\ fg = "joining"
    /\ JoinMayReturn
    /\ fg' = "idle"
    /\ signals' = Append(signals, "ListeningStopped")
    /\ UNCHANGED <<config, synthesis, voice_queue, script, delivered,
                   is_listening, audio_queue, recording_thread,
                   on_speech_detected, threads, produced, lastClassified, emitted,
                   sttCalls, detected, lastCall>>

(***************************************************************************)
(* The device: the callback of an open InputStream delivers one frame.     *)
(***************************************************************************)
AudioCallbackUpTo(maxFrames) ==
    /\ \E t \in ThreadIds : threads[t].stream = "open"
    /\ Len(produced) < maxFrames
    /\ \E verdict \in Verdicts :
         /\ produced' = Append(produced, verdict)
         /\ audio_queue' = Append(audio_queue, Len(produced) + 1)
    /\ UNCHANGED <<config, synthesis, voice_queue, script, delivered,
                   is_listening, recording_thread, on_speech_detected,
                   threads, fg, lastClassified, emitted, sttCalls, detected,
                   signals, lastCall>>

(***************************************************************************)
(* A capture thread: _recording_loop.                                      *)
(***************************************************************************)
threadFrame == <<config, synthesis, script, delivered, is_listening,
                 recording_thread, on_speech_detected, fg, produced, signals,
                 lastCall>>

\* lines 226-234: entering the with block opens the input stream, or raises
OpenStream(t) ==
    /\ threads[t].pc = "opening"
    /\ \E ok \in BOOLEAN :
         threads' = [threads EXCEPT ![t] =
                       IF ok THEN [@ EXCEPT !.pc = "loop", !.stream = "open"]
                       ELSE Ended(@, "none", "open_failed")]
    /\ UNCHANGED <<threadFrame, voice_queue, audio_queue, lastClassified, emitted, sttCalls,
                   detected>>

\* a loop that hands what it has accumulated to _process_audio_buffer on its way out
ProcessedAtExit_Flush(buf) == IF buf = <<>> THEN <<>> ELSE <<buf>>

\* lines 259-267: the buffers handed to _process_audio_buffer once the while
\* loop is left: no statement follows the loop
ProcessedAtExit(buf) == <<>>

\* line 235: the while test; leaving the loop leaves the with block
LoopCheck(t) ==
    /\ threads[t].pc = "loop"
    /\ threads' = [threads EXCEPT ![t] =
                     IF is_listening THEN [@ EXCEPT !.pc = "get", !.timed_out = FALSE]
                     ELSE Ended(@, "closed", "stopped")]
    /\ emitted' = IF is_listening THEN emitted
                  ELSE emitted \o ProcessedAtExit(threads[t].audio_buffer)
    /\ UNCHANGED <<threadFrame, voice_queue, audio_queue, lastClassified, sttCalls,
                   detected>>

\* line 204 has run for the session of thread t: the flag set by the start that
\* created t (line 190) has been cleared since, which is the case when the
\* flag is down or a later start has replaced recording_thread (line 191)
StopRequested(t) == ~is_listening \/ recording_thread # t

\* a queue that hands out the newest frame first
QueueGet_Lifo(q) == [chunk |-> q[Len(q)], rest |-> SubSeq(q, 1, Len(q) - 1)]

\* a read that throws away whatever else is waiting in the queue
QueueGet_DropRest(q) == [chunk |-> Head(q), rest |-> <<>>]

\* lines 90 and 238: audio_queue is a queue.Queue, get() takes the oldest item
QueueGet(q) == [chunk |-> Head(q), rest |-> Tail(q)]

\* line 238: audio_queue.get(timeout=0.1) returns the oldest frame
GetChunk(t) ==
    /\ threads[t].pc = "get"
    /\ audio_queue # <<>>
    /\ threads' = [threads EXCEPT ![t].pc = "classify",
                                  ![t].chunk = QueueGet(audio_queue).chunk,
                                  ![t].after_stop =
                                      IF StopRequested(t) THEN @ + 1 ELSE @]
    /\ audio_queue' = QueueGet(audio_queue).rest
    /\ UNCHANGED <<threadFrame, voice_queue, lastClassified, emitted, sttCalls, detected>>

\* a loop that takes queue.Empty for an error, as lines 262-264 do any other
AfterTimeout_Break(th) == [NewThread EXCEPT !.pc = "done", !.stream = "closed",
                                            !.exit = "error"]

\* lines 260-261: queue.Empty is caught and the loop continues with the while
\* test; the locals are untouched
AfterTimeout(th) == [th EXCEPT !.pc = "loop", !.timed_out = TRUE]

\* lines 238 and 260-261: audio_queue.get(timeout=0.1) raises queue.Empty
GetTimeout(t) ==
    /\ threads[t].pc = "get"
    /\ audio_queue = <<>>
    /\ threads' = [threads EXCEPT ![t] = AfterTimeout(@)]
    /\ UNCHANGED <<threadFrame, voice_queue, audio_queue, lastClassified, emitted, sttCalls,
                   detected>>

AudioCallback == AudioCallbackUpTo(MaxFrames)

\* lines 241-256 and 290-300: classify the frame, accumulate, and hand a complete
\* segment to _process_audio_buffer, which calls the engine
ClassifyAccumulate(t) ==
    /\ threads[t].pc = "classify"
    /\ LET th == threads[t]
           speech == Classify(produced[th.chunk])
           buf == AccumulateBuffer(th.audio_buffer, th.chunk, speech)
           sil == AccumulateSilence(th.silence_chunks, speech)
       IN  /\ lastClassified' = IF th.chunk > lastClassified THEN th.chunk
                                 ELSE lastClassified
           /\ IF SegmentComplete(buf, sil, max_silence_chunks)
              THEN /\ emitted' = Append(emitted, buf)
                   /\ sttCalls' = sttCalls \o TranscribeCalls(buf, whisper_model)
                   /\ threads' = [threads EXCEPT ![t] =
                                    [@ EXCEPT !.pc = "transcribing", !.chunk = 0,
                                              !.audio_buffer = buf,
                                              !.silence_chunks = sil]]
              ELSE /\ UNCHANGED <<emitted, sttCalls>>
                   /\ threads' = [threads EXCEPT ![t] =
                                    [@ EXCEPT !.pc = "loop", !.chunk = 0,
                                              !.audio_buffer = buf,
                                              !.silence_chunks = sil]]
    /\ UNCHANGED <<threadFrame, voice_queue, audio_queue, detected>>

\* lines 262-264: an exception while handling a frame: break, leave the with block
LoopError(t) ==
    /\ threads[t].pc = "classify"
    /\ threads' = [threads EXCEPT ![t] = Ended(@, "closed", "error")]
    /\ emitted' = emitted \o ProcessedAtExit(threads[t].audio_buffer)
    /\ UNCHANGED <<threadFrame, voice_queue, audio_queue, lastClassified, sttCalls,
                   detected>>

\* what whisper_model.transcribe can do with an utterance
EngineOutcomes == {"text", "empty", "raise"}

\* lines 308-333, _transcribe_audio: "" without a model and when transcribe raises
TranscribeAudio(model, outcome) ==
    IF model /\ outcome = "text" THEN "text" ELSE ""

\* a result that is dropped once stop_listening has cleared the flag
SpeechDelivered_UnlessStopped(text, callback) ==
    text # "" /\ callback # "None" /\ is_listening

\* a consumer notified whatever the transcription gave
SpeechDelivered_EvenEmpty(text, callback) == callback # "None"

\* line 302: the callback runs on non-empty text, if one is registered
SpeechDelivered(text, callback) == text # "" /\ callback # "None"

\* lines 290-306 and 257-258: _process_audio_buffer returns, the buffer is reset;
\* the application's callback (app.py 186-188) puts the event on its voice_queue
TranscribeReturnWith(t, outcome) ==
    /\ threads[t].pc = "transcribing"
    /\ detected' =
         IF SpeechDelivered(TranscribeAudio(whisper_model, outcome), on_speech_detected)
         THEN Append(detected, threads[t].audio_buffer)
         ELSE detected
    /\ voice_queue' =
         IF /\ SpeechDelivered(TranscribeAudio(whisper_model, outcome), on_speech_detected)
            /\ on_speech_detected = "app"
         THEN Append(voice_queue, threads[t].audio_buffer)
         ELSE voice_queue
    /\ threads' = [threads EXCEPT ![t] = AfterProcess(@)]
    /\ UNCHANGED <<threadFrame, audio_queue, lastClassified, emitted, sttCalls>>

\* lines 302-306, 327-333 and 257-258: the engine returns text, nothing, or raises
TranscribeReturn(t) ==
    \E outcome \in EngineOutcomes : TranscribeReturnWith(t, outcome)

ThreadStep ==
    \E t \in ThreadIds :
        \/ OpenStream(t)
        \/ LoopCheck(t)
        \/ GetChunk(t)
        \/ GetTimeout(t)
        \/ ClassifyAccumulate(t)
        \/ LoopError(t)
        \/ TranscribeReturn(t)

Next ==
    \/ \E callback \in {"None", "cb"} : StartListening(callback)
    \/ StopListening
    \/ StopListeningJoined
    \/ AudioCallback
    \/ ThreadStep

Spec == Init /\ [][Next]_vars

(***************************************************************************)
(* The engine in its working configuration with a threshold of one chunk,  *)
(* over a longer frame stream.                                             *)
(***************************************************************************)
MaxRestartFrames == 4    \* frames the device delivers in this specification

InitRestart ==
    /\ sample_rate = default_sample_rate
    /\ whisper_model = TRUE
    /\ sd_available = TRUE
    /\ vad = TRUE
    /\ silence_threshold = chunk_duration
    /\ InitEngine
    /\ InitSynthesis

NextRestart ==
    \/ \E callback \in {"None", "cb"} : StartListening(callback)
    \/ StopListening
    \/ StopListeningJoined
    \/ AudioCallbackUpTo(MaxRestartFrames)
    \/ ThreadStep

SpecRestart == InitRestart /\ [][NextRestart]_vars

\* the same engine over the frames of the engine specification
SpecSession == InitRestart /\ [][Next]_vars

(***************************************************************************)
(* The segment accumulator alone: one capture session whose thread handles *)
(* every frame as soon as the device delivers it, with a recognition       *)
(* engine that returns no text.                                            *)
(***************************************************************************)
InitAcc ==
    /\ sample_rate = default_sample_rate
    /\ whisper_model = TRUE
    /\ sd_available = TRUE
    /\ vad \in BOOLEAN
    /\ silence_threshold \in {SilenceStep * k : k \in 0 .. MaxSilenceUnits}
    /\ is_listening = TRUE
    /\ audio_queue = <<>>
    /\ recording_thread = 1
    /\ on_speech_detected = "app"
    /\ threads = [t \in ThreadIds |->
                    IF t = 1 THEN [NewThread EXCEPT !.pc = "loop", !.stream = "open"]
                    ELSE NewThread]
    /\ fg = "idle"
    /\ produced = <<>>
    /\ lastClassified = 0
    /\ emitted = <<>>
    /\ sttCalls = <<>>
    /\ detected = <<>>
    /\ signals = <<"ListeningStarted">>
    /\ lastCall = [op |-> "start_listening", was_listening |-> FALSE]
    /\ voice_queue = <<>>
    /\ script = "sidebar"
    /\ delivered = <<>>
    /\ InitSynthesis

\* lines 238-258 for one delivered frame
AccFeed(verdict) ==
    /\ Len(produced) < MaxStream
    /\ LET th == threads[1]
           chunk == Len(produced) + 1
           speech == Classify(verdict)
           buf == AccumulateBuffer(th.audio_buffer, chunk, speech)
           sil == AccumulateSilence(th.silence_chunks, speech)
           acc == [th EXCEPT !.audio_buffer = buf, !.silence_chunks = sil]
       IN  /\ produced' = Append(produced, verdict)
           /\ lastClassified' = chunk
           /\ IF SegmentComplete(buf, sil, max_silence_chunks)
              THEN /\ emitted' = Append(emitted, buf)
                   /\ sttCalls' = sttCalls \o TranscribeCalls(buf, whisper_model)
                   /\ threads' = [threads EXCEPT ![1] = AfterProcess(acc)]
              ELSE /\ UNCHANGED <<emitted, sttCalls>>
                   /\ threads' = [threads EXCEPT ![1] = acc]
    /\ UNCHANGED <<config, synthesis, voice_queue, script, delivered,
                   is_listening, audio_queue, recording_thread,
                   on_speech_detected, fg, detected, signals, lastCall>>

NextAcc == \E verdict \in Verdicts : AccFeed(verdict)

SpecAcc == InitAcc /\ [][NextAcc]_vars

(***************************************************************************)
(* text_to_speech, one statement that touches the cache per step, and      *)
(* set_elevenlabs_api_key.                                                 *)
(***************************************************************************)
capture == <<config, is_listening, audio_queue, recording_thread,
             on_speech_detected, threads, fg, produced, lastClassified,
             emitted, sttCalls, detected, signals, lastCall,
             voice_queue, script, delivered>>

captureFrame == <<capture, cache_before>>

\* set_elevenlabs_api_key: set_api_key succeeds or raises
SetElevenlabsApiKey ==
    /\ \E ok \in BOOLEAN : elevenlabs_configured' = (elevenlabs_configured \/ ok)
    /\ UNCHANGED <<captureFrame, tts_cache, callers, synth_count>>

\* calls that have not reached generate() yet
AwaitingGenerate == {c \in CallerIds : callers[c].pc = "generate"}

\* how the call returns to its caller
Return(cl, value, how) == [cl EXCEPT !.pc = "idle", !.ret = value, !.outcome = how]

\* lines 374-382: the call up to the membership test
TtsCallUpTo(c, text, arg, maxSynth) ==
    /\ callers[c].pc = "idle"
    /\ synth_count + Cardinality(AwaitingGenerate) < maxSynth
    /\ LET cl == callers[c]
           voice == ResolveVoice(arg)
           key == CacheKey(voice, text)
           call == [cl EXCEPT !.text = text, !.arg = arg, !.voice = voice,
                              !.key = key, !.audio = None, !.oldest = <<>>,
                              !.prev = IF cl.text = text /\ cl.arg = arg
                                       THEN cl.outcome ELSE "other"]
       IN  callers' = [callers EXCEPT ![c] =
               IF ~elevenlabs_configured
               THEN Return(call, None, "unconfigured")
               ELSE [call EXCEPT !.outcome = "pending",
                                 !.pc = IF CacheHas(tts_cache, key) THEN "hit"
                                        ELSE "generate"]]
    /\ UNCHANGED <<capture, elevenlabs_configured, tts_cache, synth_count>>

\* a call made while other calls may be running
TtsCall(c, text, arg) ==
    /\ TtsCallUpTo(c, text, arg, MaxConcurrentSynth)
    /\ UNCHANGED cache_before

\* a call of the foreground context, which makes them one after the other
TtsCallSeq(text, arg) ==
    /\ TtsCallUpTo(1, text, arg, MaxSynthCalls)
    /\ cache_before' = tts_cache

\* a read that makes the entry the most recently used one
CacheAfterRead_MoveToEnd(cache, key) ==
    IF CacheHas(cache, key)
    THEN Append(CacheDel(cache, key), [key |-> key, audio |-> CacheGet(cache, key)])
    ELSE cache

\* line 383: self.tts_cache[cache_key] is a plain dict read
CacheAfterRead(cache, key) == cache

\* line 383: the read of the entry found at line 382; KeyError if it has gone
TtsReadHit(c) ==
    /\ callers[c].pc = "hit"
    /\ callers' = [callers EXCEPT ![c] =
           IF CacheHas(tts_cache, @.key)
           THEN Return(@, CacheGet(tts_cache, @.key), "hit")
           ELSE Return(@, None, "raised")]
    /\ tts_cache' = CacheAfterRead(tts_cache, callers[c].key)
    /\ UNCHANGED <<captureFrame, elevenlabs_configured, synth_count>>

\* lines 386-399 and 410-412: generate() returns and the audio is stored, or raises
TtsGenerate(c) ==
    /\ callers[c].pc = "generate"
    /\ synth_count' = synth_count + 1
    /\ \E ok \in BOOLEAN :
         LET cl == callers[c]
             audio == Audio(cl.text, cl.voice, synth_count + 1)
         IN  /\ tts_cache' = CacheAfterSynthesis(tts_cache, cl.key, ok, audio)
             /\ callers' = [callers EXCEPT ![c] =
                    IF ok THEN [cl EXCEPT !.pc = "check", !.audio = audio]
                    ELSE Return(cl, None, "synth_failed")]
    /\ UNCHANGED <<captureFrame, elevenlabs_configured>>

\* lines 402 and 408: the size test; return audio when the cache is not too large
TtsCheck(c) ==
    /\ callers[c].pc = "check"
    /\ callers' = [callers EXCEPT ![c] =
           IF NeedsEviction(tts_cache) THEN [@ EXCEPT !.pc = "snapshot"]
           ELSE Return(@, @.audio, "synthesized")]
    /\ UNCHANGED <<captureFrame, elevenlabs_configured, tts_cache, synth_count>>

\* line 404: the list of the oldest keys
TtsSnapshot(c) ==
    /\ callers[c].pc = "snapshot"
    /\ callers' = [callers EXCEPT ![c] =
           [@ EXCEPT !.pc = "evict", !.oldest = OldestKeys(tts_cache)]]
    /\ UNCHANGED <<captureFrame, elevenlabs_configured, tts_cache, synth_count>>

\* lines 405-412: one del of the loop; KeyError goes to the except branch, which
\* returns None; after the last del, return audio
TtsEvictOne(c) ==
    /\ callers[c].pc = "evict"
    /\ LET cl == callers[c]
           key == Head(cl.oldest)
       IN  IF CacheHas(tts_cache, key)
           THEN /\ tts_cache' = CacheDel(tts_cache, key)
                /\ callers' = [callers EXCEPT ![c] =
                       IF Tail(cl.oldest) = <<>>
                       THEN Return([cl EXCEPT !.oldest = <<>>], cl.audio, "synthesized")
                       ELSE [cl EXCEPT !.oldest = Tail(cl.oldest)]]
           ELSE /\ tts_cache' = tts_cache
                /\ callers' = [callers EXCEPT ![c] = Return(cl, None, "evict_error")]
    /\ UNCHANGED <<captureFrame, elevenlabs_configured, synth_count>>

TtsStep(c) ==
    \/ TtsReadHit(c)
    \/ TtsGenerate(c)
    \/ TtsCheck(c)
    \/ TtsSnapshot(c)
    \/ TtsEvictOne(c)

\* an engine that is not capturing, whose cache holds what earlier calls left
InitTts ==
    /\ sample_rate = default_sample_rate
    /\ whisper_model = TRUE
    /\ sd_available = TRUE
    /\ vad = TRUE
    /\ silence_threshold = default_silence_threshold
    /\ InitEngine
    /\ \E n \in {0} \cup {max_entries - k : k \in 0 .. MaxBelow} :
         /\ tts_cache = Prefilled(n)
         /\ elevenlabs_configured = (n > 0)
    /\ callers = [c \in CallerIds |-> IdleCaller]
    /\ synth_count = 0
    /\ cache_before = <<>>

\* text_to_speech called from one context, each call after the one before returned
NextTtsSeq ==
    \/ SetElevenlabsApiKey
    \/ \E text \in TtsTexts, arg \in VoiceArgs : TtsCallSeq(text, arg)
    \/ TtsStep(1)

SpecTtsSeq == InitTts /\ [][NextTtsSeq]_vars

\* text_to_speech called from several contexts at once
NextTts ==
    \/ SetElevenlabsApiKey
    \/ \E c \in CallerIds, text \in {OldestText} \cup FreshTexts :
          TtsCall(c, text, "None")
    \/ \E c \in CallerIds : TtsStep(c)

SpecTts == InitTts /\ [][NextTts]_vars

(***************************************************************************)
(* app.py: the GreyHatAI object that made the engine.  main() builds a new *)
(* GreyHatAI, with a new voice_queue and a new VoiceEngine, on every run   *)
(* of the script; st.rerun() ends the run it is called in.  The capture    *)
(* thread of the engine outlives the run and keeps the callback bound to   *)
(* the object of that run.                                                 *)
(***************************************************************************)
appFrame == <<config, synthesis, is_listening, audio_queue, recording_thread,
              on_speech_detected, threads, fg, produced, lastClassified,
              emitted, sttCalls, detected, signals, lastCall>>

\* app.py 301-305: the Start Voice button: start_listening(), then st.rerun()
ClickStartVoice ==
    /\ script = "sidebar"
    /\ StartListeningCall("None")
    /\ script' = "ended"

\* app.py 504-509: render_sidebar returns and render_main_interface runs
SidebarDone ==
    /\ script = "sidebar"
    /\ script' = "main"
    /\ UNCHANGED <<appFrame, voice_queue, delivered>>

\* app.py 419-429 and 488: _process_voice_input takes the oldest event and
\* hands its text to _process_user_input, whose st.rerun() ends the run
\* before the loop takes another; with an empty queue the run goes on to its end
ProcessVoiceInput ==
    /\ script = "main"
    /\ script' = "ended"
    /\ IF voice_queue = <<>>
       THEN UNCHANGED <<voice_queue, delivered>>
       ELSE /\ delivered' = Append(delivered, Head(voice_queue))
            /\ voice_queue' = Tail(voice_queue)
    /\ UNCHANGED appFrame

NextApp ==
    \/ ClickStartVoice
    \/ SidebarDone
    \/ ProcessVoiceInput
    \/ AudioCallback
    \/ ThreadStep

SpecApp == Init /\ [][NextApp]_vars

(***************************************************************************)
(* Vocabulary of the properties.                                           *)
(***************************************************************************)
\* the classification of frame i
Speech(i) == Classify(produced[i])

\* the frames a .. b in arrival order
Run(a, b) == [i \in 1 .. (b - a + 1) |-> a + i - 1]

Last(seq) == seq[Len(seq)]

\* frame b closes a segment: frame b - T is speech and the T frames after it are not
Closes(b, T) ==
    /\ b - T >= 1
    /\ Speech(b - T)
    /\ \A j \in (b - T + 1) .. b : ~Speech(j)

\* the frame after which the k-th segment starts to be looked for
Before(k) == IF k = 1 THEN 0 ELSE Last(emitted[k - 1])

\* u is the segment found after frame e: it runs from the first speech frame
\* after e to the first frame from there on that closes a segment
IsSegmentAfter(u, e, T) ==
    /\ u # <<>>
    /\ u = Run(u[1], Last(u))
    /\ u[1] > e
    /\ Speech(u[1])
    /\ \A i \in (e + 1) .. (u[1] - 1) : ~Speech(i)
    /\ Last(u) - T >= u[1]
    /\ Closes(Last(u), T)
    /\ \A b \in u[1] .. (Last(u) - 1) : ~(b - T >= u[1] /\ Closes(b, T))

Scenario1 == <<TRUE, TRUE, TRUE, FALSE, FALSE, FALSE, FALSE,
               TRUE, TRUE, FALSE, FALSE, FALSE, FALSE>>

Scenario3 == <<TRUE, FALSE, FALSE, FALSE, FALSE>>

\* C1: every emitted utterance is exactly the contiguous frames from the first
\* speech frame after Idle through the T-th consecutive non-speech frame, in
\* arrival order; the stream speech*3, non-speech*4, speech*2, non-speech*4
\* with T = 4 yields exactly two utterances, of 7 and of 6 frames.
C1_UtterancesAreSegments ==
    /\ \A k \in 1 .. Len(emitted) :
          IsSegmentAfter(emitted[k], Before(k), max_silence_chunks)
    /\ (vad /\ max_silence_chunks = 4 /\ produced = Scenario1) =>
          emitted = <<Run(1, 7), Run(8, 13)>>

C1_Witness ==
    vad /\ max_silence_chunks = 4 /\ produced = Scenario1 /\ Len(emitted) = 2

\* C2: the number of utterances emitted equals the number of times a speech
\* run is followed by the threshold number of consecutive non-speech frames,
\* and no emitted utterance is empty.
C2_EmissionCount ==
    /\ Len(emitted) = Cardinality({b \in 1 .. Len(produced) :
                                      Closes(b, max_silence_chunks)})
    /\ \A k \in 1 .. Len(emitted) : emitted[k] # <<>>

C2_Witness ==
    /\ Len(emitted) >= 2
    /\ max_silence_chunks >= 2
    /\ \E i \in 1 .. Len(produced) : ~Speech(i) /\ i < emitted[1][1]

\* C3: chunk_duration 0.5 s and silence_threshold 2.0 s give a threshold of 4
\* frames; 1 speech frame then 4 non-speech frames emit exactly one utterance
\* of 5 frames; right after any emission the accumulator is Idle: the buffer is
\* empty and the silence-run counter is 0.
C3_ScenarioAndIdleAfterEmission ==
    /\ silence_threshold = default_silence_threshold => max_silence_chunks = 4
    /\ (vad /\ silence_threshold = default_silence_threshold
            /\ produced = Scenario3) =>
          emitted = <<Run(1, 5)>>
    /\ (emitted # <<>> /\ Last(Last(emitted)) = Len(produced)) =>
          /\ threads[1].audio_buffer = <<>>
          /\ threads[1].silence_chunks = 0

C3_Witness ==
    /\ vad
    /\ silence_threshold = default_silence_threshold
    /\ produced = Scenario3
    /\ Len(emitted) = 1
    /\ threads[1].audio_buffer = <<>>

\* the number of calls to the engine made with utterance u
TimesTranscribed(u) == Cardinality({i \in 1 .. Len(sttCalls) : sttCalls[i] = u})

\* C4: every utterance the accumulator emits is handed to the speech-to-text
\* engine exactly once, never zero times and never twice, over any sequence
\* of frames and start/stop calls.
C4_TranscribedExactlyOnce ==
    /\ \A k \in 1 .. Len(emitted) : TimesTranscribed(emitted[k]) = 1
    /\ \A i \in 1 .. Len(sttCalls) : \E k \in 1 .. Len(emitted) : sttCalls[i] = emitted[k]

C4_Witness ==
    /\ Len(emitted) >= 2
    /\ signals = <<"ListeningStarted", "ListeningStopped", "ListeningStarted">>
    /\ \E t \in ThreadIds : threads[t].pc = "transcribing"

\* thread t has an utterance under accumulation
IsOpen(t) ==
    /\ threads[t].pc \in {"loop", "get", "classify"}
    /\ threads[t].audio_buffer # <<>>

\* thread t has been started and has not returned
IsLive(t) == threads[t].pc \notin {"unstarted", "done"}

\* C5: at most one utterance is open (being accumulated) at any time, for
\* every sequence of start_listening / stop_listening calls, including a
\* start issued after a stop whose join timed out.
C5_AtMostOneOpenUtterance == Cardinality({t \in ThreadIds : IsOpen(t)}) <= 1

Increasing(seq) == \A i \in 1 .. (Len(seq) - 1) : seq[i] < seq[i + 1]

\* C6: frames are classified and accumulated in exactly the order the device
\* produced them, with no reordering inside an utterance, and no frame is
\* classified more than once, for every interleaving of the device callback,
\* the capture thread and start/stop calls.
C6_ArrivalOrder ==
    /\ \A t \in ThreadIds :
          threads[t].pc = "classify" => threads[t].chunk > lastClassified
    /\ \A t \in ThreadIds : Increasing(threads[t].audio_buffer)
    /\ \A k \in 1 .. Len(emitted) : Increasing(emitted[k])

\* C7: the audio device is held by at most one capture session at a time: at
\* most one open input stream and at most one live capture thread, across
\* any sequence of start_listening and stop_listening calls.
C7_OneCaptureSession ==
    /\ Cardinality({t \in ThreadIds : threads[t].stream = "open"}) <= 1
    /\ Cardinality({t \in ThreadIds : IsLive(t)}) <= 1

\* everything start_listening and stop_listening could change, but the record
\* of the call itself
engineState == <<config, is_listening, audio_queue, recording_thread,
                 on_speech_detected, threads, fg, produced, lastClassified,
                 emitted, sttCalls, detected, signals, synthesis, voice_queue>>

Alternating(seq) ==
    \A i \in 1 .. Len(seq) :
        seq[i] = IF i % 2 = 1 THEN "ListeningStarted" ELSE "ListeningStopped"

\* C8: stop_listening while not listening, and start_listening while already
\* listening, is a no-op: it changes no state, starts no thread and signals
\* nothing; in any call sequence the ListeningStarted / ListeningStopped
\* signals strictly alternate, starting with ListeningStarted.
C8_IdempotentStartStop ==
    /\ []Alternating(signals)
    /\ [][(is_listening /\ \E callback \in {"None", "cb"} : StartListening(callback))
             => UNCHANGED engineState]_vars
    /\ [][(~is_listening /\ StopListening) => UNCHANGED engineState]_vars

C8_Witness ==
    /\ lastCall = [op |-> "start_listening", was_listening |-> TRUE]
    /\ Len(signals) = 3
    /\ is_listening

\* the classifier is missing, or a session found the device impossible to open
CannotInitialize ==
    \/ ~vad
    \/ \E t \in ThreadIds : threads[t].exit = "open_failed"

\* C9: if the classifier or the audio device cannot be initialized, start
\* fails fast: no background capture context is started, the engine is not
\* left in the listening state and ListeningStarted is not signalled.
C9_StartFailsFast ==
    CannotInitialize =>
        /\ \A t \in ThreadIds : threads[t].pc = "unstarted"
        /\ ~is_listening
        /\ signals = <<>>

\* C10: when a device read fails during a capture session, the capture loop
\* stops itself, releases the device, and ListeningStopped is emitted (the
\* engine leaves the listening state) without any further call from the
\* consumer.
C10_ErrorEndsListening ==
    \A t \in ThreadIds :
        (recording_thread = t /\ threads[t].exit = "error") =>
            /\ threads[t].stream = "closed"
            /\ ~is_listening
            /\ signals # <<>> /\ Last(signals) = "ListeningStopped"

\* C11: for every stop of a running capture loop the audio device is released
\* before ListeningStopped is signalled, also when the loop is blocked in a
\* transcription call at the moment stop is requested: while ListeningStopped
\* is the last signal, no input stream is open.
C11_ReleasedBeforeStopped ==
    (signals # <<>> /\ Last(signals) = "ListeningStopped") =>
        \A t \in ThreadIds : threads[t].stream # "open"

\* C12: the audio device is released on every exit path of a capture session
\* (stop flag observed, exception inside the loop, failure opening the
\* stream): a capture thread that has terminated holds no open input stream;
\* the stream it opened is closed.
C12_TerminatedMeansClosed ==
    \A t \in ThreadIds :
        threads[t].pc = "done" =>
            /\ threads[t].stream # "open"
            /\ threads[t].exit \in {"stopped", "error"} => threads[t].stream = "closed"
            /\ threads[t].exit = "open_failed" => threads[t].stream = "none"

C12_Witness ==
    /\ threads[1].pc = "done" /\ threads[1].exit = "error"
    /\ threads[2].pc = "done" /\ threads[2].exit = "stopped"
    /\ threads[2].stream = "closed"

\* thread t is in the loop with nothing accumulated, its stream open
IdleInLoop(th) ==
    /\ th.pc = "loop"
    /\ th.audio_buffer = <<>>
    /\ th.silence_chunks = 0
    /\ th.stream = "open"
    /\ th.exit = "none"

\* C13: a recognition failure (engine unavailable or transcribe raising) yields
\* an empty result, produces no SpeechDetected event and does not terminate
\* the capture loop: the loop is back at Idle with its stream open, ready for
\* the next frame; no return from transcription ends the thread.
C13_RecognitionFailureIsolated ==
    /\ [](\A outcome \in EngineOutcomes, callback \in {"None", "app", "cb"} :
             /\ TranscribeAudio(FALSE, outcome) = ""
             /\ TranscribeAudio(TRUE, "raise") = ""
             /\ ~SpeechDelivered(TranscribeAudio(FALSE, outcome), callback)
             /\ ~SpeechDelivered(TranscribeAudio(TRUE, "raise"), callback))
    /\ [][\A t \in ThreadIds :
             TranscribeReturnWith(t, "raise") =>
                 /\ detected' = detected
                 /\ IdleInLoop(threads'[t])]_vars
    /\ [][\A t \in ThreadIds :
             (threads[t].pc = "transcribing" /\ threads'[t].pc # "transcribing") =>
                 /\ IdleInLoop(threads'[t])
                 /\ detected' \in {detected, Append(detected, threads[t].audio_buffer)}]_vars

C13_Witness ==
    /\ on_speech_detected = "app"
    /\ Len(emitted) = 2
    /\ detected = <<>>
    /\ threads[1].pc = "transcribing"
    /\ threads[2].pc = "unstarted"

\* without a VAD, every frame delivered so far is in the one open utterance
\* and nothing has been emitted
OneOpenUtterance ==
    /\ emitted = <<>>
    /\ threads[1].audio_buffer = Run(1, Len(produced))

AtRest == \A c \in CallerIds : callers[c].pc = "idle"

\* the call returned audio to its caller
Successful == {"synthesized", "hit"}

\* the call is past the lookup and is calling, or has called, generate()
InvokesEngine(cl) ==
    \/ cl.pc \in {"generate", "check", "snapshot", "evict"}
    \/ cl.pc = "idle" /\ cl.outcome \in {"synthesized", "synth_failed"}

\* C15: after a successful text_to_speech(t, v), a second identical call
\* returns the same bytes from the cache without invoking the external
\* synthesis engine, whatever the engine would do now: the call never reaches
\* generate(), no engine call is counted, and the value returned is the value
\* the first call returned.
C15_RepeatServedFromCache ==
    /\ [](\A c \in CallerIds :
            callers[c].prev \in Successful =>
                /\ ~InvokesEngine(callers[c])
                /\ callers[c].pc \in {"hit", "idle"}
                /\ callers[c].pc = "idle" => callers[c].outcome = "hit")
    /\ [][\A c \in CallerIds :
            (callers'[c].prev \in Successful /\ callers'[c] # callers[c]) =>
                /\ synth_count' = synth_count
                /\ callers'[c].ret = callers[c].ret
                /\ callers'[c].ret # None]_vars

C15_Witness ==
    /\ callers[1].pc = "idle"
    /\ callers[1].prev = "synthesized"
    /\ callers[1].outcome = "hit"
    /\ callers[1].ret = Audio(callers[1].text, callers[1].voice, synth_count)
    /\ Len(tts_cache) = max_entries + 1 - evict_batch

\* C16: after any sequence of text_to_speech calls, whenever no call is in
\* progress the cache holds at most max_entries (50) entries.
C16_AtMostMaxEntriesAtRest == AtRest => Len(tts_cache) <= max_entries

C16_Witness ==
    /\ AtRest
    /\ callers[1].outcome = "synthesized"
    /\ Len(cache_before) = max_entries - 1
    /\ Len(tts_cache) = max_entries

\* the entry a successful call of context c has stored
NewEntry(c) == [key |-> callers[c].key, audio |-> callers[c].ret]

\* C17: when an insertion takes the cache past max_entries, exactly the
\* evict_batch (10) entries that were inserted earliest are removed, the
\* newly inserted entry and all other entries are kept, in their order, and
\* the cache is left with max_entries + 1 - evict_batch entries.
C17_EvictsTheOldestBatch ==
    \A c \in CallerIds :
        (/\ callers[c].pc = "idle"
         /\ callers[c].outcome = "synthesized"
         /\ Len(cache_before) + 1 > max_entries) =>
            /\ tts_cache = SubSeq(Append(cache_before, NewEntry(c)),
                                  evict_batch + 1, Len(cache_before) + 1)
            /\ Len(tts_cache) = max_entries + 1 - evict_batch

C17_Witness ==
    /\ callers[1].pc = "idle"
    /\ callers[1].outcome = "synthesized"
    /\ Len(cache_before) = max_entries
    /\ Len(tts_cache) = max_entries + 1 - evict_batch
    /\ tts_cache[1].key = CacheKey(elevenlabs_voice_id, evict_batch + 1)

\* C18: a failed synthesis call is reported to the caller as an error value
\* (None) and is never cached: the cache is what it was when the call began,
\* with no entry under the call's key, and a later identical call invokes the
\* external engine again.
C18_FailureNotCached ==
    \A c \in CallerIds :
        /\ (callers[c].pc = "idle" /\ callers[c].outcome = "synth_failed") =>
              /\ callers[c].ret = None
              /\ tts_cache = cache_before
              /\ ~CacheHas(tts_cache, callers[c].key)
        /\ callers[c].prev = "synth_failed" => InvokesEngine(callers[c])

C18_Witness ==
    /\ callers[1].pc = "idle"
    /\ callers[1].prev = "synth_failed"
    /\ callers[1].outcome = "synthesized"
    /\ synth_count >= 2

\* context d has stored its entry and has not finished the size test and the
\* eviction that follow
MidInsertAndEvict(d) == callers[d].pc \in {"check", "snapshot", "evict"}

\* the step is one of context c that reads or writes the cache: the
\* membership test, the read of a hit, the store, the size test, the list of
\* keys or a del
CacheAccess(c) ==
    /\ callers'[c] # callers[c]
    /\ ~(callers[c].pc = "idle" /\ callers'[c].outcome = "unconfigured")
    /\ ~(callers[c].pc = "generate" /\ callers'[c].outcome = "synth_failed")

\* C19: lookup, insert and eviction on the synthesis cache form one atomic
\* unit per call: no interleaving of two concurrent text_to_speech calls lets
\* one read or write the cache while the other is part-way through its
\* insert-and-evict step.
C19_AtomicCacheStep ==
    [][\A c \in CallerIds, d \in CallerIds :
          (c # d /\ MidInsertAndEvict(d)) => ~CacheAccess(c)]_vars

\* C20: SpeechDetected events handed from the capture thread to the consumer
\* queue are delivered in the order they were produced, each at most once,
\* and none is dropped once enqueued: what was delivered followed by what is
\* queued is what was produced, and an event is only ever queued where a
\* consumer will still drain it, that is, in a script run that has not ended.
C20_QueueDelivery ==
    /\ delivered \o voice_queue = detected
    /\ voice_queue # <<>> => script # "ended"

\* get_status(): a snapshot computed from the fields at the time of the call
GetStatus ==
    [whisper_available |-> whisper_model,
     vad_available |-> vad,
     elevenlabs_configured |-> elevenlabs_configured,
     is_listening |-> is_listening,
     audio_available |-> sd_available]

\* C21: the status snapshot is never stale: whenever get_status reports
\* is_listening = true a capture loop is actually running, and once the
\* capture loop of the session has terminated for any reason (stop, device
\* failure, stream-open failure) get_status reports is_listening = false.
C21_StatusNeverStale ==
    /\ GetStatus.is_listening => \E t \in ThreadIds : IsLive(t)
    /\ (recording_thread # 0 /\ ~IsLive(recording_thread)) =>
          ~GetStatus.is_listening

\* the accumulator of the session is Idle: no utterance is open
Idle == threads[1].audio_buffer = <<>>

\* the step feeds the Idle accumulator a frame classified as non-speech
IdleNonSpeechFrame ==
    \E verdict \in Verdicts :
        Idle /\ ~Classify(verdict) /\ AccFeed(verdict)

\* C22 as stated: in Idle a non-speech frame is discarded and changes no
\* accumulator state: the buffer stays empty and the silence-run counter
\* keeps its value.
C22_IdleNonSpeechNoChange ==
    [][IdleNonSpeechFrame =>
          /\ threads'[1].audio_buffer = <<>>
          /\ threads'[1].silence_chunks = threads[1].silence_chunks]_vars

\* C22, amended: in Idle a non-speech frame is discarded: the buffer stays
\* empty and nothing is emitted or transcribed; the silence-run counter is
\* incremented, and whatever it has reached in Idle never counts toward the
\* threshold, because the frame that opens the next utterance sets it to 0.
C22_IdleNonSpeechDiscarded ==
    /\ [][IdleNonSpeechFrame =>
             /\ threads'[1].audio_buffer = <<>>
             /\ emitted' = emitted
             /\ sttCalls' = sttCalls
             /\ threads'[1].silence_chunks = threads[1].silence_chunks + 1]_vars
    /\ [][(Idle /\ threads'[1].audio_buffer # <<>>) =>
             threads'[1].silence_chunks = 0]_vars

C22_Witness ==
    /\ Idle
    /\ emitted = <<>>
    /\ max_silence_chunks >= 1
    /\ threads[1].silence_chunks > max_silence_chunks
    /\ Len(produced) = threads[1].silence_chunks

\* the step feeds the accumulator a frame with this classification while an
\* utterance is open
AccumulatingFrame(speech) ==
    \E verdict \in Verdicts :
        ~Idle /\ Classify(verdict) = speech /\ AccFeed(verdict)

\* frames i .. j are one stretch of utterance u, in arrival order
HoldsRun(u, i, j) ==
    \E p \in 1 .. Len(u) :
        /\ p + (j - i) <= Len(u)
        /\ SubSeq(u, p, p + (j - i)) = Run(i, j)

\* frames i .. j are together in one utterance, emitted or still open
InOneUtterance(i, j) ==
    \/ HoldsRun(threads[1].audio_buffer, i, j)
    \/ \E k \in 1 .. Len(emitted) : HoldsRun(emitted[k], i, j)

\* C23: while accumulating, a speech frame resets the silence-run counter to 0
\* and a non-speech frame below the threshold is appended and increments it,
\* so a run of fewer than threshold non-speech frames between two speech
\* frames never splits the utterance and all of those frames stay in it in
\* order.
C23_ShortSilenceKept ==
    /\ [][AccumulatingFrame(TRUE) =>
             /\ threads'[1].silence_chunks = 0
             /\ threads'[1].audio_buffer =
                    Append(threads[1].audio_buffer, Len(produced'))
             /\ emitted' = emitted]_vars
    /\ [][(AccumulatingFrame(FALSE)
             /\ threads[1].silence_chunks + 1 < max_silence_chunks) =>
             /\ threads'[1].silence_chunks = threads[1].silence_chunks + 1
             /\ threads'[1].audio_buffer =
                    Append(threads[1].audio_buffer, Len(produced'))
             /\ emitted' = emitted]_vars
    /\ [](\A i \in 1 .. Len(produced), j \in 1 .. Len(produced) :
            (/\ i < j
             /\ Speech(i) /\ Speech(j)
             /\ \A m \in (i + 1) .. (j - 1) : ~Speech(m)
             /\ j - i - 1 < max_silence_chunks) =>
                InOneUtterance(i, j))

C23_Witness ==
    /\ max_silence_chunks = 3
    /\ produced = <<TRUE, FALSE, FALSE, TRUE, FALSE, FALSE, TRUE>>
    /\ threads[1].audio_buffer = Run(1, 7)
    /\ threads[1].silence_chunks = 0
    /\ emitted = <<>>

\* C24: after stop sets the stop flag, the capture loop reads at most one
\* further frame before it exits: the flag is checked before every frame read
\* and a read that times out re-checks it.
C24_AtMostOneReadAfterStop ==
    \A t \in ThreadIds : threads[t].after_stop <= 1

\* C25: a frame-read timeout is not an error: the loop retries, and the open
\* utterance buffer, the silence-run counter and the listening flag are all
\* unchanged by the timeout.
C25_TimeoutIsNotAnError ==
    /\ [](\A t \in ThreadIds :
            threads[t].timed_out =>
                /\ threads[t].pc = "loop"
                /\ threads[t].stream = "open"
                /\ threads[t].exit = "none")
    /\ [][\A t \in ThreadIds :
            GetTimeout(t) =>
                /\ threads'[t].timed_out
                /\ threads'[t].audio_buffer = threads[t].audio_buffer
                /\ threads'[t].silence_chunks = threads[t].silence_chunks
                /\ is_listening' = is_listening
                /\ signals' = signals]_vars
    /\ [][\A t \in ThreadIds :
            (threads[t].timed_out /\ is_listening /\ LoopCheck(t)) =>
                threads'[t].pc = "get"]_vars

C25_Witness ==
    /\ is_listening
    /\ threads[1].timed_out
    /\ threads[1].audio_buffer # <<>>
    /\ emitted = <<>>

\* thread t is inside _process_audio_buffer, waiting for the engine
InFlight(t) == threads[t].pc = "transcribing"

\* C26: a transcription already in flight when stop is requested is not
\* cancelled: it runs to completion, and if its text is non-empty its
\* SpeechDetected callback is still delivered, possibly after ListeningStopped
\* has been signalled.  No step of stop_listening touches a capture thread or
\* the events delivered; a thread in flight can always return, leaves the call
\* only by returning from it, and a return with text delivers the utterance
\* whatever the flag and the signals are.
C26_InFlightNotCancelled ==
    /\ [][(StopListening \/ StopListeningJoined) =>
             /\ threads' = threads
             /\ detected' = detected
             /\ on_speech_detected' = on_speech_detected]_vars
    /\ [](\A t \in ThreadIds :
            InFlight(t) => ENABLED TranscribeReturnWith(t, "text"))
    /\ [][\A t \in ThreadIds :
            (InFlight(t) /\ ~InFlight(t)') =>
                /\ \E outcome \in EngineOutcomes : TranscribeReturnWith(t, outcome)
                /\ threads'[t].pc = "loop"
                /\ threads'[t].stream = "open"]_vars
    /\ [][\A t \in ThreadIds :
            (TranscribeReturnWith(t, "text") /\ on_speech_detected # "None") =>
                detected' = Append(detected, threads[t].audio_buffer)]_vars

C26_Witness ==
    /\ signals = <<"ListeningStarted", "ListeningStopped">>
    /\ ~is_listening
    /\ fg = "idle"
    /\ threads[1].pc = "loop"
    /\ threads[1].after_stop = 0
    /\ Len(emitted) = 1
    /\ detected = emitted

\* the latest call of context c missed the cache and its generate() returned audio
MissSynthesized(c) == callers[c].pc = "idle" /\ callers[c].audio # None

\* C27: on a cache miss whose external synthesis call succeeds, text_to_speech
\* invokes the engine exactly once, stores the result, applies eviction and
\* returns the synthesized bytes (never an error value), including when two
\* calls overflow the cache at the same time.
C27_MissReturnsSynthesizedAudio ==
    \A c \in CallerIds :
        MissSynthesized(c) =>
            /\ callers[c].ret = callers[c].audio
            /\ callers[c].outcome = "synthesized"
            /\ callers[c].audio.n \in 1 .. synth_count

(***************************************************************************)
(* text_to_speech called once from each of several contexts, at the same   *)
(* time, for one text that is not in the cache.                            *)
(***************************************************************************)
\* a text no entry was made from
SameKeyText == max_entries + 1

\* the one call of context c, with the voice argument omitted
TtsCallOnce(c) ==
    /\ callers[c].outcome = "none"
    /\ TtsCall(c, SameKeyText, "None")

NextTtsSame ==
    \/ SetElevenlabsApiKey
    \/ \E c \in CallerIds : TtsCallOnce(c)
    \/ \E c \in CallerIds : TtsStep(c)

SpecTtsSame == InitTts /\ [][NextTtsSame]_vars

\* the call of context c found no entry under its key at line 382
Missed(c) ==
    \/ callers[c].pc \in {"generate", "check", "snapshot", "evict"}
    \/ /\ callers[c].pc = "idle"
       /\ callers[c].outcome \in {"synthesized", "synth_failed", "evict_error"}

\* the contexts whose call missed and has made its generate() call
Generated == {c \in CallerIds : Missed(c) /\ callers[c].pc # "generate"}

\* the places of the entries the cache holds under a key
EntriesOf(key) == {i \in 1 .. Len(tts_cache) : tts_cache[i].key = key}

\* C28: concurrent lookups for the same key that both miss are not
\* deduplicated: each issues its own external synthesis call, and afterwards
\* the cache holds a single entry for that key.  Every call that missed makes
\* one generate() call of its own; the cache never holds two entries under
\* one key; and once the calls have returned, a key under which a synthesis
\* succeeded has exactly one entry, holding the audio of one of those calls.
C28_MissesNotDeduplicated ==
    /\ synth_count = Cardinality(Generated)
    /\ \A c \in Generated, d \in Generated :
          (c # d /\ callers[c].audio # None /\ callers[d].audio # None) =>
              callers[c].audio.n # callers[d].audio.n
    /\ Cardinality({tts_cache[i].key : i \in 1 .. Len(tts_cache)}) = Len(tts_cache)
    /\ AtRest =>
          \A c \in CallerIds :
              MissSynthesized(c) =>
                  /\ Cardinality(EntriesOf(callers[c].key)) = 1
                  /\ \E d \in CallerIds :
                        /\ MissSynthesized(d)
                        /\ callers[d].key = callers[c].key
                        /\ CacheGet(tts_cache, callers[c].key) = callers[d].audio

C28_Witness ==
    /\ AtRest
    /\ MissSynthesized(1) /\ MissSynthesized(2)
    /\ callers[1].key = callers[2].key
    /\ callers[1].audio # callers[2].audio
    /\ synth_count = 2
    /\ Cardinality(EntriesOf(callers[1].key)) = 1
    /\ Len(tts_cache) = max_entries + 1 - evict_batch

(***************************************************************************)
(* _process_audio_buffer called directly, with any buffer, on an engine    *)
(* that is not listening.                                                  *)
(***************************************************************************)
MaxUtterance == 2      \* frames in a buffer handed to _process_audio_buffer
MaxProcessCalls == 3   \* calls made to _process_audio_buffer

\* the buffers handed over: the empty one, and utterances of frames 1 .. n
ProcessInputs == {Run(1, n) : n \in 0 .. MaxUtterance}

\* lines 290-306: what one call does.  An empty buffer returns at once, from
\* before the try, with nothing logged; any other is transcribed, and the
\* callback runs on non-empty text
ProcessAudioBuffer(buf, model, outcome, callback) ==
    IF buf = <<>>
    THEN [how |-> "returned", calls |-> <<>>, delivered |-> FALSE]
    ELSE [how |-> "processed",
          calls |-> TranscribeCalls(buf, model),
          delivered |-> SpeechDelivered(TranscribeAudio(model, outcome), callback)]

ProcessAudioBufferCall(buf, outcome) ==
    /\ fg = "idle"
    /\ Len(emitted) < MaxProcessCalls
    /\ LET r == ProcessAudioBuffer(buf, whisper_model, outcome, on_speech_detected)
       IN  /\ lastCall' = [op |-> "_process_audio_buffer",
                           was_listening |-> is_listening, result |-> r.how]
           /\ emitted' = Append(emitted, buf)
           /\ sttCalls' = sttCalls \o r.calls
           /\ detected' = IF r.delivered THEN Append(detected, buf) ELSE detected
           /\ voice_queue' = IF r.delivered /\ on_speech_detected = "app"
                             THEN Append(voice_queue, buf) ELSE voice_queue
    /\ UNCHANGED <<config, synthesis, script, delivered, is_listening, audio_queue,
                   recording_thread, on_speech_detected, threads, fg, produced,
                   lastClassified, signals>>

NextProcess ==
    \E buf \in ProcessInputs, outcome \in EngineOutcomes :
        ProcessAudioBufferCall(buf, outcome)

SpecProcess == Init /\ [][NextProcess]_vars

\* the ways a call can reject its argument loudly: an exception to the caller,
\* or an error written to the log
Loud == {"raised", "logged"}

\* C29: an attempt to emit an empty utterance is rejected loudly as an
\* internal invariant violation; it is never silently ignored.
C29_EmptyUtteranceRejectedLoudly ==
    (lastCall.op = "_process_audio_buffer" /\ Last(emitted) = <<>>) =>
        lastCall.result \in Loud

(***************************************************************************)
(* The engine with its model, audio library and VAD available, configured  *)
(* with the default sample rate or with one the VAD does not take.         *)
(***************************************************************************)
SampleRates == {default_sample_rate, 44100}

InitShape ==
    /\ sample_rate \in SampleRates
    /\ whisper_model = TRUE
    /\ sd_available = TRUE
    /\ vad = TRUE
    /\ silence_threshold = chunk_duration
    /\ InitEngine
    /\ InitSynthesis

SpecShape == InitShape /\ [][Next]_vars

\* C30: a configured frame shape the classifier cannot accept is rejected
\* once, with a configuration error at startup before any frame is captured;
\* it never surfaces as a per-frame classification failure during capture.
\* With such a configuration no capture thread is started, the engine does
\* not listen, and no frame is ever handed to the classifier.
C30_ShapeRejectedAtStartup ==
    VadRaises =>
        /\ \A t \in ThreadIds : threads[t].pc = "unstarted"
        /\ ~is_listening
        /\ produced = <<>>
        /\ lastClassified = 0

\* C31: a value returned by text_to_speech(text, voice) is always the audio
\* the synthesis engine produced for that same text and voice, including on
\* cache hits, where the key is built from the voice id and hash(text).
C31_ReturnsAudioOfSameText ==
    \A c \in CallerIds :
        (callers[c].pc = "idle" /\ callers[c].ret # None) =>
            /\ callers[c].ret.text = callers[c].text
            /\ callers[c].ret.voice = callers[c].voice

\* the step ends the loop of thread t, by the stop flag or by an exception
LoopStops(t) ==
    \/ ~is_listening /\ LoopCheck(t)
    \/ LoopError(t)

\* C32: when the capture loop stops (stop flag or error) while an utterance is
\* open, that partial utterance is discarded: it is never transcribed and
\* produces no event.  The step that ends the loop hands nothing to
\* _process_audio_buffer, to the engine or to a callback, and the buffer is
\* gone with the thread.
C32_PartialUtteranceDiscarded ==
    [][\A t \in ThreadIds :
          (IsOpen(t) /\ LoopStops(t)) =>
              /\ threads'[t].pc = "done"
              /\ threads'[t].audio_buffer = <<>>
              /\ emitted' = emitted
              /\ sttCalls' = sttCalls
              /\ detected' = detected
              /\ voice_queue' = voice_queue]_vars

C32_Witness ==
    /\ threads[1].pc = "done"
    /\ threads[1].exit = "stopped"
    /\ threads[2].pc = "unstarted"
    /\ lastClassified = 1
    /\ Speech(1)
    /\ emitted = <<>>
    /\ sttCalls = <<>>

\* no input stream is open: the device delivers nothing
NoStreamOpen == \A t \in ThreadIds : threads[t].stream # "open"

\* C33: frames still in the audio queue when a capture session ends are not
\* cleared; a capture session started later on the same engine consumes those
\* leftover frames, in order, before any frame produced in the new session.
\* The queue only changes by the device appending a frame and by a capture
\* thread taking one, so ending or starting a session leaves it as it is; it
\* holds its frames in arrival order, and every read takes the oldest frame,
\* older than every frame still queued or produced later.
C33_LeftoverFramesConsumedFirst ==
    /\ []Increasing(audio_queue)
    /\ [](\A i \in 1 .. Len(audio_queue) : audio_queue[i] <= Len(produced))
    /\ [][audio_queue' # audio_queue =>
             \/ audio_queue' = Append(audio_queue, Len(produced'))
             \/ \E t \in ThreadIds : GetChunk(t)]_vars
    /\ [][\A t \in ThreadIds :
             GetChunk(t) =>
                 /\ threads'[t].chunk = audio_queue[1]
                 /\ audio_queue' = Tail(audio_queue)
                 /\ \A i \in 1 .. Len(audio_queue') :
                       threads'[t].chunk < audio_queue'[i]]_vars

C33_Witness ==
    /\ threads[1].pc = "done"
    /\ threads[1].exit = "stopped"
    /\ threads[2].pc = "opening"
    /\ NoStreamOpen
    /\ signals = <<"ListeningStarted", "ListeningStopped", "ListeningStarted">>
    /\ audio_queue = <<1, 2>>

\* the thread of the latest session has ended on its own: the stream could not
\* be opened (line 266) or an exception broke the loop (lines 262-264)
SelfTerminated ==
    /\ recording_thread # 0
    /\ threads[recording_thread].pc = "done"
    /\ threads[recording_thread].exit \in {"open_failed", "error"}

\* C34: after the capture thread has terminated on its own (stream-open
\* failure or an exception inside the loop), start_listening starts no new
\* session until stop_listening has been called, because the listening flag
\* is cleared only by stop_listening. A thread that ends on its own leaves
\* the flag as it was, the only step that clears the flag is stop_listening,
\* and a start_listening call made while the flag of the ended session is
\* still set changes nothing.
C34_NoRestartAfterSelfTermination ==
    /\ [][(is_listening /\ ~is_listening') => StopListening]_vars
    /\ [][(~SelfTerminated /\ SelfTerminated') => is_listening' = is_listening]_vars
    /\ [][\A callback \in {"None", "cb"} :
             (SelfTerminated /\ is_listening /\ StartListening(callback)) =>
                 UNCHANGED engineState]_vars

C34_Witness ==
    /\ SelfTerminated
    /\ threads[1].exit = "error"
    /\ is_listening
    /\ lastCall = [op |-> "start_listening", was_listening |-> TRUE]
    /\ signals = <<"ListeningStarted">>
    /\ \A t \in ThreadIds \ {recording_thread} : threads[t].pc = "unstarted"

(***************************************************************************)
(* The engine with its model and audio library available, started and      *)
(* never stopped, under fair scheduling: a capture thread that can take a  *)
(* step eventually takes one (the interpreter switches between runnable    *)
(* threads), and a transcription call eventually returns. An exception     *)
(* inside the loop is possible but never bound to happen, and neither the  *)
(* device nor the foreground is obliged to do anything.                    *)
(***************************************************************************)
InitLive ==
    /\ sample_rate = default_sample_rate
    /\ whisper_model = TRUE
    /\ sd_available = TRUE
    /\ vad = TRUE
    /\ silence_threshold \in {chunk_duration * k : k \in 0 .. MaxSilenceChunks}
    /\ InitEngine
    /\ InitSynthesis

\* the steps _recording_loop takes when nothing raises
ThreadRun(t) ==
    \/ OpenStream(t)
    \/ LoopCheck(t)
    \/ GetChunk(t)
    \/ GetTimeout(t)
    \/ ClassifyAccumulate(t)
    \/ TranscribeReturn(t)

NextLive ==
    \/ \E callback \in {"None", "cb"} : StartListening(callback)
    \/ AudioCallback
    \/ ThreadStep

SpecLive ==
    InitLive /\ [][NextLive]_vars /\ \A t \in ThreadIds : WF_vars(ThreadRun(t))

Queued(n) == \E i \in 1 .. Len(audio_queue) : audio_queue[i] = n

\* C35: while the engine stays listening, frames keep arriving and every
\* transcription call returns, every segment that completes (a speech run
\* followed by threshold consecutive non-speech frames) is eventually handed
\* to the transcription engine; frames queued while a transcription is running
\* are not dropped. In a session that is never stopped, every frame in the
\* queue is eventually classified unless the stream has been closed by an
\* exception; a frame waits in the queue for as long as no thread reads it,
\* and the step that classifies the frame completing a segment hands that
\* segment to the engine.
C35_CompletedSegmentsTranscribed ==
    /\ \A n \in 1 .. MaxFrames :
          Queued(n) ~> (lastClassified >= n \/ NoStreamOpen)
    /\ [][\A n \in 1 .. MaxFrames :
             (Queued(n) /\ ~Queued(n)') => \E t \in ThreadIds : threads'[t].chunk = n]_vars
    /\ [][\A t \in ThreadIds :
             (/\ ClassifyAccumulate(t)
              /\ threads'[t].audio_buffer # <<>>
              /\ threads'[t].silence_chunks >= max_silence_chunks) =>
                 /\ threads'[t].pc = "transcribing"
                 /\ sttCalls' = Append(sttCalls, threads'[t].audio_buffer)]_vars

C35_Witness ==
    /\ is_listening
    /\ threads[1].pc = "transcribing"
    /\ threads[1].stream = "open"
    /\ sttCalls = << <<1>> >>
    /\ audio_queue = <<2>>

\* C36: a cache hit changes nothing in the cache: eviction order is by first
\* insertion only, so an entry that was just read is still evicted when it is
\* among the 10 earliest-inserted entries at overflow. The read of a hit
\* leaves the cache, entries and order, as it was; a call that returns from a
\* hit leaves the cache it found; and an insertion that takes the cache past
\* max_entries removes the keys of the first evict_batch entries of the cache
\* it found, whatever was read before.
C36_HitLeavesEvictionOrder ==
    /\ [][\A c \in CallerIds : TtsReadHit(c) => tts_cache' = tts_cache]_vars
    /\ [](\A c \in CallerIds :
            (callers[c].pc = "idle" /\ callers[c].outcome = "hit") =>
                tts_cache = cache_before)
    /\ [](\A c \in CallerIds :
            (/\ callers[c].pc = "idle"
             /\ callers[c].outcome = "synthesized"
             /\ Len(cache_before) + 1 > max_entries) =>
                \A i \in 1 .. evict_batch :
                    ~CacheHas(tts_cache, cache_before[i].key))

C36_Witness ==
    /\ callers[1].pc = "idle"
    /\ callers[1].outcome = "hit"
    /\ callers[1].text = OldestText
    /\ callers[1].arg = "None"
    /\ Len(tts_cache) = max_entries
    /\ tts_cache[1].key = callers[1].key

\* C37: every emitted utterance begins with a speech frame and, when the
\* threshold is at least 1, ends with exactly threshold consecutive
\* non-speech frames, so its length is at least threshold + 1: its last
\* threshold frames are non-speech and the frame before them is speech.
C37_UtteranceShape ==
    \A k \in 1 .. Len(emitted) :
        LET u == emitted[k]
            T == max_silence_chunks
        IN  /\ u # <<>>
            /\ Speech(u[1])
            /\ T >= 1 =>
                  /\ Len(u) >= T + 1
                  /\ \A j \in (Len(u) - T + 1) .. Len(u) : ~Speech(u[j])
                  /\ Speech(u[Len(u) - T])

C37_Witness ==
    /\ vad
    /\ max_silence_chunks = 2
    /\ Len(emitted) = 2
    /\ Len(emitted[1]) = 4
    /\ Len(emitted[2]) = 3

\* C38: start_listening called when the speech-to-text model or the audio
\* library is unavailable changes nothing: the listening flag stays false, no
\* capture thread is created, the speech callback is not replaced and
\* ListeningStarted is not signalled. On such an engine, after whatever calls
\* were made, the engine is as it was constructed.
C38_UnavailableStartChangesNothing ==
    (~whisper_model \/ ~sd_available) =>
        /\ ~is_listening
        /\ recording_thread = 0
        /\ \A t \in ThreadIds : threads[t] = NewThread
        /\ on_speech_detected = "app"
        /\ signals = <<>>
        /\ audio_queue = <<>> /\ produced = <<>>

C38_Witness ==
    /\ whisper_model
    /\ ~sd_available
    /\ lastCall = [op |-> "start_listening", was_listening |-> FALSE]
    /\ ~is_listening
    /\ recording_thread = 0

====
